---- MODULE Spec2Model ----
(***************************************************************************)
(* Session & connection manager of the signify browser extension, as the   *)
(* functions connect and isConnected of tests/unit/connect.test.ts define  *)
(* it, run by callers whose asynchronous tasks interleave at every await   *)
(* on one event loop (Spec); and the popup's SigninList component of       *)
(* components/signinList.tsx with the background registry it talks to and  *)
(* the tab it notifies (PopupSpec).                                        *)
(***************************************************************************)
EXTENDS Naturals, Sequences, FiniteSets, TLC

\* ------------------------------------------------------------------ bounds
\* Number of callers whose asynchronous calls may be in flight together.
MaxCallers == 2
\* Number of top-level calls (connect or isConnected) between two beforeEach.
MaxCalls == 2

Callers == 1 .. MaxCallers
CallIds == 1 .. MaxCalls

\* --------------------------------------------------------------- constants
NULL == "null"
UNDEFINED == "undefined"
REJECT == "reject"
MockClient == "mockClient"
TestControllerId == "test-controller-id"
AgentUrl == "http://example.com/agent"
TestPasscode == "test-passcode"
StoredUrl == "http://stored-url.com"
StoredPasscode == "stored-passcode"
AlarmName == "passcode-timeout"
DelayInMinutes == 5

\* What mockClient.state() resolves with: the controller state with its "i"
\* property, or the one without it.
StateWithId == "state-with-i"
StateWithoutId == "state-without-i"

\* Outcomes of the awaited collaborators: each jest mock resolves with its
\* default or with a value queued by mockResolvedValueOnce, or rejects with
\* one queued by mockRejectedValueOnce.
\* The errors connect can catch, named by the step that threw them.
ReadyError == "ready error"
ConnectError == "Connect error"
StateError == "State error"
PersistError == "setControllerId error"
TypeError == "TypeError"
Errors == {ReadyError, ConnectError, StateError, PersistError, TypeError}

PromiseOutcomes == {"resolve", REJECT}
StateOutcomes == {StateWithId, StateWithoutId, REJECT}
PasscodeOutcomes == {NULL, StoredPasscode, REJECT}
UrlOutcomes == {NULL, StoredUrl, REJECT}

VARIABLES
    client,        \* _client: the module-level client reference
    constructed,   \* SignifyClient mock: per call, the arguments of its `new`s
    persisted,     \* setControllerId mock: per call, the arguments it passed
    alarms,        \* alarms.create / alarms.clear mocks: their calls, in order
    nCalls,        \* top-level calls started since beforeEach
    pc,            \* per caller: the await its task is suspended at
    call,          \* per caller: the ordinal of its current call since beforeEach
    op,            \* per caller: the top-level function it called
    url,           \* per caller: agentUrl argument / url read from config
    passcode,      \* per caller: passcode argument / passcode read from user service
    queried,       \* per caller: isConnected's _client?.state() did call state()
    state,         \* per caller: what its `await ... state()` produced
    connectRet,    \* per caller: what its connect returned
    returned       \* the last top-level call to return: its value and its frame

vars == <<client, constructed, persisted, alarms, nCalls, pc, call, op, url,
          passcode, queried, state, connectRet, returned>>

\* A caller's frame: the locals of its call.
frame == <<call, op, url, passcode, queried, state, connectRet>>

\* The popup's SigninList component and what it talks to.
VARIABLES
    signins,       \* useState<ISignin[]>([]): the displayed list
    isLoading,     \* useState(false): the loading indicator
    fetchPc,       \* where the fetchSignins started on mount is
    registry,      \* the background's collection of signin records
    clicks,        \* the deleteSignin / updateAutoSignin calls made, each with its position
    tabMsgs        \* chrome.tabs.sendMessage calls, in order

\* The popup side, untouched by the session manager.
popup == <<signins, isLoading, fetchPc, registry, clicks, tabMsgs>>

\* ------------------------------------------------------------ pure helpers
\* A value that is an array of signin records, and the value undefined.
Arr(items) == [tag |-> "array", items |-> items]
Undef == [tag |-> "undefined", items |-> <<>>]

\* state?.controller?.state?.i
ControllerIdOf(s) == IF s = StateWithId THEN TestControllerId ELSE UNDEFINED

\* if (url && passcode && !_client)
ShouldReconnect(u, pw, c) == u # NULL /\ pw # NULL /\ c = NULL

\* ConnectedResult without its test of _client.
ConnectedResultIgnoringClient(c, s) ==
    IF ControllerIdOf(s) # UNDEFINED THEN "true" ELSE "false"

\* return _client && state?.controller?.state?.i ? true : false
ConnectedResult(c, s) ==
    IF c # NULL /\ ControllerIdOf(s) # UNDEFINED THEN "true" ELSE "false"

\* A catch block that leaves _client as it was.
ClientKeptAfterCatch(c) == c

\* _client = null in connect's catch block, whatever _client was
ClientAfterCatch(c) == NULL

\* _client = new SignifyClient(...): what connect assigns, whatever _client was
ClientAfterConstruct(c) == MockClient

\* A recorded call of one of the alarm mocks, made by call c.
AlarmCall(fn, c, arg) == [fn |-> fn, who |-> c, arg |-> arg]

\* browser.alarms.create('passcode-timeout', { delayInMinutes: 5 })
AlarmCreateCall(c) == AlarmCall("alarms.create", c, <<AlarmName, DelayInMinutes>>)

\* browser.alarms.clear('passcode-timeout')
AlarmClearCall(c) == AlarmCall("alarms.clear", c, <<AlarmName>>)

\* The mocks' records, none of them touched.
mocks == <<constructed, persisted, alarms>>

\* The positions of a task inside connect.
ConnectPcs == {"c_ready", "c_handshake", "c_state", "c_persist"}

\* A caller with no call in flight: it has made none, or its last one returned.
Settled(p) == pc[p] = "idle"

\* The caller that makes the next call: callers are interchangeable, so the
\* first one with no call in flight.
CanCall(p) ==
    /\ Settled(p)
    /\ \A q \in Callers : q < p => ~Settled(q)
    /\ nCalls < MaxCalls

\* No call has returned yet.
NoReturn ==
    [call |-> 0, op |-> "none", url |-> UNDEFINED, passcode |-> UNDEFINED,
     queried |-> FALSE, state |-> UNDEFINED, connectRet |-> "none",
     result |-> "none"]

\* Every frame as it is when no call is in flight.
NoFrames ==
    /\ pc = [p \in Callers |-> "idle"]
    /\ call = [p \in Callers |-> 0]
    /\ op = [p \in Callers |-> "none"]
    /\ url = [p \in Callers |-> UNDEFINED]
    /\ passcode = [p \in Callers |-> UNDEFINED]
    /\ queried = [p \in Callers |-> FALSE]
    /\ state = [p \in Callers |-> UNDEFINED]
    /\ connectRet = [p \in Callers |-> "none"]

\* ------------------------------------------------------------------- Init
SessionInit ==
    /\ client = NULL
    /\ constructed = [c \in CallIds |-> <<>>]
    /\ persisted = [c \in CallIds |-> <<>>]
    /\ alarms = <<>>
    /\ nCalls = 0
    /\ NoFrames
    /\ returned = NoReturn

\* The popup before it is mounted: useState's initial values.
PopupUnmounted ==
    /\ signins = Arr(<<>>)
    /\ isLoading = FALSE
    /\ fetchPc = "unmounted"
    /\ clicks = <<>>
    /\ tabMsgs = <<>>

Init == SessionInit /\ PopupUnmounted /\ registry = <<>>

\* ------------------------------------------------------- calls and returns
\* A caller starts a top-level call f.
BeginCall(p, f) ==
    /\ CanCall(p)
    /\ nCalls' = nCalls + 1
    /\ call' = [call EXCEPT ![p] = nCalls + 1]
    /\ op' = [op EXCEPT ![p] = f]
    /\ UNCHANGED <<client, mocks, queried, state, connectRet, returned>>

\* The caller's top-level call returns res (or raises): the test awaiting it
\* gets res, and the call's frame is gone. st and cr are the frame's `state`
\* and connect's return value as the call returns.
Return(p, st, cr, res) ==
    /\ returned' = [call |-> call[p], op |-> op[p], url |-> url[p],
                    passcode |-> passcode[p], queried |-> queried[p],
                    state |-> st, connectRet |-> cr, result |-> res]
    /\ pc' = [pc EXCEPT ![p] = "idle"]
    /\ call' = [call EXCEPT ![p] = 0]
    /\ op' = [op EXCEPT ![p] = "none"]
    /\ url' = [url EXCEPT ![p] = UNDEFINED]
    /\ passcode' = [passcode EXCEPT ![p] = UNDEFINED]
    /\ queried' = [queried EXCEPT ![p] = FALSE]
    /\ state' = [state EXCEPT ![p] = UNDEFINED]
    /\ connectRet' = [connectRet EXCEPT ![p] = "none"]

\* connect returns cr: to the test when the test called it, else to the
\* isConnected that awaits it.
ConnectReturn(p, cr) ==
    IF op[p] = "connect"
    THEN Return(p, state[p], cr, cr)
    ELSE /\ connectRet' = [connectRet EXCEPT ![p] = cr]
         /\ pc' = [pc EXCEPT ![p] = "ic_connected"]
         /\ UNCHANGED <<call, op, url, passcode, queried, state, returned>>

\* ---------------------------------------------------------------- connect
\* A catch block that also cancels the idle-timeout alarm.
ConnectCatchClearingAlarm(p, error) ==
    /\ client' = ClientAfterCatch(client)
    /\ ConnectReturn(p, error)
    /\ alarms' = Append(alarms, AlarmClearCall(call[p]))
    /\ UNCHANGED <<constructed, persisted, nCalls>>

\* connect's catch block: console.error, _client = null, return { error }.
ConnectCatch(p, error) ==
    /\ client' = ClientAfterCatch(client)
    /\ ConnectReturn(p, error)
    /\ UNCHANGED <<mocks, nCalls>>

\* Entering connect(agentUrl, passcode): runs to `await ready()`.
EnterConnect(p, u, pw) ==
    /\ url' = [url EXCEPT ![p] = u]
    /\ passcode' = [passcode EXCEPT ![p] = pw]
    /\ pc' = [pc EXCEPT ![p] = "c_ready"]

\* A caller calls connect with the test's credentials.
CallConnect(p) ==
    /\ BeginCall(p, "connect")
    /\ EnterConnect(p, AgentUrl, TestPasscode)
    /\ UNCHANGED popup

\* ready() settled: construct the client and start the handshake.
ReadySettled(p, o) ==
    /\ pc[p] = "c_ready"
    /\ IF o = REJECT
       THEN ConnectCatch(p, ReadyError)
       ELSE /\ client' = ClientAfterConstruct(client)
            /\ constructed' = [constructed EXCEPT
                                   ![call[p]] = Append(@, <<url[p], passcode[p]>>)]
            /\ pc' = [pc EXCEPT ![p] = "c_handshake"]
            /\ UNCHANGED <<persisted, alarms, nCalls, frame, returned>>
    /\ UNCHANGED popup

\* _client.connect() settled: on success call _client.state(), which throws a
\* TypeError when _client has become null in the meantime.
HandshakeSettled(p, o) ==
    /\ pc[p] = "c_handshake"
    /\ IF o = REJECT
       THEN ConnectCatch(p, ConnectError)
       ELSE IF client = NULL
            THEN ConnectCatch(p, TypeError)
            ELSE /\ pc' = [pc EXCEPT ![p] = "c_state"]
                 /\ UNCHANGED <<client, mocks, nCalls, frame, returned>>
    /\ UNCHANGED popup

\* _client.state() settled: call setControllerId with the controller id.
StateSettled(p, o) ==
    /\ pc[p] = "c_state"
    /\ IF o = REJECT
       THEN ConnectCatch(p, StateError)
       ELSE /\ state' = [state EXCEPT ![p] = o]
            /\ persisted' = [persisted EXCEPT
                                 ![call[p]] = Append(@, <<ControllerIdOf(o)>>)]
            /\ pc' = [pc EXCEPT ![p] = "c_persist"]
            /\ UNCHANGED <<client, constructed, alarms, nCalls, call, op, url,
                           passcode, queried, connectRet, returned>>
    /\ UNCHANGED popup

\* setControllerId settled: create the alarm and return undefined.
PersistSettled(p, o) ==
    /\ pc[p] = "c_persist"
    /\ IF o = REJECT
       THEN ConnectCatch(p, PersistError)
       ELSE /\ alarms' = Append(alarms, AlarmCreateCall(call[p]))
            /\ ConnectReturn(p, UNDEFINED)
            /\ UNCHANGED <<client, constructed, persisted, nCalls>>
    /\ UNCHANGED popup

\* ------------------------------------------------------------ isConnected
\* An await outside any try block rejected: isConnected's promise rejects.
Raise(p) == Return(p, state[p], connectRet[p], "raised")

\* const state = await _client?.state()
QueryState(p) ==
    /\ queried' = [queried EXCEPT ![p] = (client # NULL)]
    /\ pc' = [pc EXCEPT ![p] = "ic_state"]

\* A caller calls isConnected: runs to `await getPasscode()`.
CallIsConnected(p) ==
    /\ BeginCall(p, "isConnected")
    /\ pc' = [pc EXCEPT ![p] = "ic_passcode"]
    /\ UNCHANGED <<url, passcode>>
    /\ UNCHANGED popup

\* getPasscode() settled: then `await getAgentUrl()`.
PasscodeSettled(p, o) ==
    /\ pc[p] = "ic_passcode"
    /\ IF o = REJECT
       THEN Raise(p)
       ELSE /\ passcode' = [passcode EXCEPT ![p] = o]
            /\ pc' = [pc EXCEPT ![p] = "ic_url"]
            /\ UNCHANGED <<call, op, url, queried, state, connectRet, returned>>
    /\ UNCHANGED <<client, mocks, nCalls>>
    /\ UNCHANGED popup

\* getAgentUrl() settled: reconnect with the stored values, or query the state.
UrlSettled(p, o) ==
    /\ pc[p] = "ic_url"
    /\ IF o = REJECT
       THEN Raise(p)
       ELSE IF ShouldReconnect(o, passcode[p], client)
            THEN /\ EnterConnect(p, o, passcode[p])
                 /\ UNCHANGED <<call, op, queried, state, connectRet, returned>>
            ELSE /\ url' = [url EXCEPT ![p] = o]
                 /\ QueryState(p)
                 /\ UNCHANGED <<call, op, passcode, state, connectRet, returned>>
    /\ UNCHANGED <<client, mocks, nCalls>>
    /\ UNCHANGED popup

\* A resumption that re-arms the alarm without clearing it first.
ConnectAwaitedWithoutClear(p) ==
    /\ pc[p] = "ic_connected"
    /\ pc' = [pc EXCEPT ![p] = "ic_clear"]
    /\ UNCHANGED <<client, mocks, nCalls, frame, returned>>
    /\ UNCHANGED popup

\* `await connect(url, passcode)` resumed: `await alarms.clear(...)`.
ConnectAwaited(p) ==
    /\ pc[p] = "ic_connected"
    /\ alarms' = Append(alarms, AlarmClearCall(call[p]))
    /\ pc' = [pc EXCEPT ![p] = "ic_clear"]
    /\ UNCHANGED <<client, constructed, persisted, nCalls, frame, returned>>
    /\ UNCHANGED popup

\* alarms.clear settled: alarms.create, then query the state.
ClearSettled(p, o) ==
    /\ pc[p] = "ic_clear"
    /\ IF o = REJECT
       THEN Raise(p) /\ UNCHANGED alarms
       ELSE /\ alarms' = Append(alarms, AlarmCreateCall(call[p]))
            /\ QueryState(p)
            /\ UNCHANGED <<call, op, url, passcode, state, connectRet, returned>>
    /\ UNCHANGED <<client, constructed, persisted, nCalls>>
    /\ UNCHANGED popup

\* `await _client?.state()` resumed where _client was null: state is undefined.
StateSkipped(p) ==
    /\ pc[p] = "ic_state"
    /\ ~queried[p]
    /\ Return(p, UNDEFINED, connectRet[p], ConnectedResult(client, UNDEFINED))
    /\ UNCHANGED <<client, mocks, nCalls>>
    /\ UNCHANGED popup

\* A liveness check that drops the handle when the state query fails.
LivenessSettledDroppingHandle(p, o) ==
    /\ pc[p] = "ic_state"
    /\ queried[p]
    /\ Return(p, o, connectRet[p],
              IF o = REJECT THEN "false" ELSE ConnectedResult(client, o))
    /\ client' = IF o = StateWithId THEN client ELSE NULL
    /\ UNCHANGED <<mocks, nCalls>>
    /\ UNCHANGED popup

\* _client.state() settled inside isConnected's try block: the catch block
\* returns false, the try block the conjunction.
LivenessSettled(p, o) ==
    /\ pc[p] = "ic_state"
    /\ queried[p]
    /\ Return(p, o, connectRet[p],
              IF o = REJECT THEN "false" ELSE ConnectedResult(client, o))
    /\ UNCHANGED <<client, mocks, nCalls>>
    /\ UNCHANGED popup

\* ------------------------------------------------------------ test harness
\* beforeEach: jest.clearAllMocks() and _client = null, run between tests,
\* when no call is in flight.
BeforeEach ==
    /\ \A p \in Callers : Settled(p)
    /\ nCalls > 0
    /\ client' = NULL
    /\ constructed' = [c \in CallIds |-> <<>>]
    /\ persisted' = [c \in CallIds |-> <<>>]
    /\ alarms' = <<>>
    /\ nCalls' = 0
    /\ returned' = NoReturn
    /\ UNCHANGED <<pc, frame>>
    /\ UNCHANGED popup

Next ==
    \/ \E p \in Callers : CallConnect(p)
    \/ \E p \in Callers : \E o \in PromiseOutcomes : ReadySettled(p, o)
    \/ \E p \in Callers : \E o \in PromiseOutcomes : HandshakeSettled(p, o)
    \/ \E p \in Callers : \E o \in StateOutcomes : StateSettled(p, o)
    \/ \E p \in Callers : \E o \in PromiseOutcomes : PersistSettled(p, o)
    \/ \E p \in Callers : CallIsConnected(p)
    \/ \E p \in Callers : \E o \in PasscodeOutcomes : PasscodeSettled(p, o)
    \/ \E p \in Callers : \E o \in UrlOutcomes : UrlSettled(p, o)
    \/ \E p \in Callers : ConnectAwaited(p)
    \/ \E p \in Callers : \E o \in PromiseOutcomes : ClearSettled(p, o)
    \/ \E p \in Callers : StateSkipped(p)
    \/ \E p \in Callers : \E o \in StateOutcomes : LivenessSettled(p, o)
    \/ BeforeEach

Spec == Init /\ [][Next]_vars

\* ===================================================== popup: SigninList
\* Number of deleteSignin / updateAutoSignin calls made from the cards.
MaxClicks == 2

ClickIds == 1 .. MaxClicks

\* Signin records: their id and their autoSignin flag.
SigninA == [id |-> "a", autoSignin |-> FALSE]
SigninB == [id |-> "b", autoSignin |-> TRUE]

\* The collections the background may hold when the popup opens.
Registries == {<<>>, <<SigninA>>, <<SigninA, SigninB>>}

\* What `await sendMessage(...)` produces: a response with data, a response
\* with an error payload, or a rejection.
SendOutcomes == {"data", "error", REJECT}

\* What chrome.tabs.query passes to its callback: no tab, or the active tab.
NoTab == "no active tab"
ActiveTab == "active tab"
TabQueryOutcomes == {NoTab, ActiveTab}

\* What awaiting the get-tab-state request produces: a response whose data
\* has a tabState, a response without data, no response at all, a rejection.
TabStates == {"DEFAULT", "SELECT_SIGNIN"}
NoData == "response without data"
TabStateOutcomes == TabStates \cup {NoData, UNDEFINED, REJECT}

\* ------------------------------------------------------ signin registry
\* list()
RegistryList(reg) == reg

\* delete(id): success and the remaining records
RegistryDelete(reg, id) ==
    [success |-> \E i \in DOMAIN reg : reg[i].id = id,
     remaining |-> SelectSeq(reg, LAMBDA r : r.id # id)]

\* setAutoSignin(record): the flag of the record with that id, if any
RegistrySetAutoSignin(reg, rec) ==
    [i \in DOMAIN reg |->
        IF reg[i].id = rec.id THEN [reg[i] EXCEPT !.autoSignin = rec.autoSignin]
                              ELSE reg[i]]

\* ----------------------------------------------------- message responses
NoResponse == [kind |-> "none", isDeleted |-> FALSE, signins |-> Undef]
Rejected == [kind |-> REJECT, isDeleted |-> FALSE, signins |-> Undef]
ErrorResponse == [kind |-> "error", isDeleted |-> FALSE, signins |-> Undef]
DataResponse(isDeleted, list) ==
    [kind |-> "data", isDeleted |-> isDeleted, signins |-> Arr(list)]

\* The response to a request, by the outcome of its send.
Response(o, isDeleted, list) ==
    CASE o = "data" -> DataResponse(isDeleted, list)
      [] o = "error" -> ErrorResponse
      [] OTHER -> Rejected

\* data?.signins
SigninsOf(resp) == IF resp.kind = "data" THEN resp.signins ELSE Undef

\* A test that takes any response with data for a deletion.
DeleteAcceptedIgnoringFlag(resp) == resp.kind = "data"

\* if (data?.isDeleted)
DeleteAccepted(resp) == resp.kind = "data" /\ resp.isDeleted

\* if (data?.signins): an array is truthy, also the empty one
UpdateAccepted(resp) == SigninsOf(resp).tag = "array"

\* data?.tabState of the get-tab-state response
TabStateOf(o) == IF o \in TabStates THEN o ELSE UNDEFINED

\* A chrome.tabs.sendMessage call made for click c.
TabMessage(c, subtype, eventType) ==
    [who |-> c, subtype |-> subtype, eventType |-> eventType]

\* { type: "tab", subtype: "get-tab-state" }
GetTabStateMessage(c) == TabMessage(c, "get-tab-state", UNDEFINED)

\* A reload-state message that carries no display mode.
ReloadStateMessageWithoutMode(c, o) == TabMessage(c, "reload-state", UNDEFINED)

\* { type: "tab", subtype: "reload-state", eventType: data?.tabState }
ReloadStateMessage(c, o) == TabMessage(c, "reload-state", TabStateOf(o))

\* signins.map(...) faults when signins is not an array.
RenderFaults == signins.tag # "array"

\* The cards on display: one per record of signins.
Cards == IF RenderFaults THEN {} ELSE DOMAIN signins.items

\* A call made from a card, as it starts: its request is sent.
Click(kind, signin) ==
    [kind |-> kind, arg |-> signin, pc |-> "sent", resp |-> NoResponse,
     tabState |-> "none"]

\* ------------------------------------------------------------ fetchSignins
\* useEffect on mount calls fetchSignins: setIsLoading(true), then the
\* fetch-signins request is sent and awaited.
Mount ==
    /\ fetchPc = "unmounted"
    /\ isLoading' = TRUE
    /\ fetchPc' = "sent"
    /\ UNCHANGED <<signins, registry, clicks, tabMsgs>>
    /\ UNCHANGED vars

\* The fetch-signins request settled: a rejection ends fetchSignins at its
\* await; a response is destructured, setSignins(data?.signins) and
\* setIsLoading(false) run.
FetchResponded(o) ==
    /\ fetchPc = "sent"
    /\ IF o = REJECT
       THEN /\ fetchPc' = "failed"
            /\ UNCHANGED <<signins, isLoading>>
       ELSE /\ signins' = SigninsOf(Response(o, FALSE, RegistryList(registry)))
            /\ isLoading' = FALSE
            /\ fetchPc' = "done"
    /\ UNCHANGED <<registry, clicks, tabMsgs>>
    /\ UNCHANGED vars

\* ------------------------------------- deleteSignin and updateAutoSignin
\* handleDelete of the card of signins[i]: deleteSignin(signin.id) sends its
\* request.
ClickDelete(i) ==
    /\ i \in Cards
    /\ Len(clicks) < MaxClicks
    /\ clicks' = Append(clicks, Click("delete", signins.items[i]))
    /\ UNCHANGED <<signins, isLoading, fetchPc, registry, tabMsgs>>
    /\ UNCHANGED vars

\* handleAutoSignin of the card of signins[i]: updateAutoSignin(signin) sends
\* its request.
ClickAutoSignin(i) ==
    /\ i \in Cards
    /\ Len(clicks) < MaxClicks
    /\ clicks' = Append(clicks, Click("update", signins.items[i]))
    /\ UNCHANGED <<signins, isLoading, fetchPc, registry, tabMsgs>>
    /\ UNCHANGED vars

\* A handler that leaves the list alone until the tab has been notified.
AcceptDeferringList(c, resp) ==
    /\ UNCHANGED signins
    /\ clicks' = [clicks EXCEPT ![c].pc = "tabs", ![c].resp = resp]

\* The body of the handler's if: setSignins(data?.signins) and
\* chrome.tabs.query(..., callback).
Accept(c, resp) ==
    /\ signins' = SigninsOf(resp)
    /\ clicks' = [clicks EXCEPT ![c].pc = "tabs", ![c].resp = resp]

\* The handler ends without entering its if, or at its rejected await.
Decline(c, resp) ==
    /\ UNCHANGED signins
    /\ clicks' = [clicks EXCEPT ![c].pc = IF resp.kind = REJECT THEN "failed" ELSE "done",
                                ![c].resp = resp]

\* The delete request settled: the background has deleted the record (unless
\* the request failed) and deleteSignin resumes.
DeleteResponded(c, o) ==
    /\ c \in DOMAIN clicks
    /\ clicks[c].kind = "delete" /\ clicks[c].pc = "sent"
    /\ LET d == RegistryDelete(registry, clicks[c].arg.id)
           resp == Response(o, d.success, d.remaining)
       IN /\ registry' = IF o = "data" THEN d.remaining ELSE registry
          /\ IF DeleteAccepted(resp) THEN Accept(c, resp) ELSE Decline(c, resp)
    /\ UNCHANGED <<isLoading, fetchPc, tabMsgs>>
    /\ UNCHANGED vars

\* The update-auto-signin request settled: the background has set the flag
\* (unless the request failed) and updateAutoSignin resumes.
UpdateResponded(c, o) ==
    /\ c \in DOMAIN clicks
    /\ clicks[c].kind = "update" /\ clicks[c].pc = "sent"
    /\ LET list == RegistrySetAutoSignin(registry, clicks[c].arg)
           resp == Response(o, FALSE, list)
       IN /\ registry' = IF o = "data" THEN list ELSE registry
          /\ IF UpdateAccepted(resp) THEN Accept(c, resp) ELSE Decline(c, resp)
    /\ UNCHANGED <<isLoading, fetchPc, tabMsgs>>
    /\ UNCHANGED vars

\* ------------------------------------------------------- tab notification
\* chrome.tabs.query calls back: tabs[0].id faults when there is no active
\* tab; else the get-tab-state request is sent and awaited.
TabsQueried(c, tabs) ==
    /\ c \in DOMAIN clicks
    /\ clicks[c].pc = "tabs"
    /\ IF tabs = NoTab
       THEN /\ clicks' = [clicks EXCEPT ![c].pc = "failed"]
            /\ UNCHANGED tabMsgs
       ELSE /\ tabMsgs' = Append(tabMsgs, GetTabStateMessage(c))
            /\ clicks' = [clicks EXCEPT ![c].pc = "tabstate"]
    /\ UNCHANGED <<signins, isLoading, fetchPc, registry>>
    /\ UNCHANGED vars

\* The get-tab-state request settled: a rejection, or no response to
\* destructure, ends the callback; else reload-state is sent, not awaited.
TabStateSettled(c, o) ==
    /\ c \in DOMAIN clicks
    /\ clicks[c].pc = "tabstate"
    /\ IF o \in {REJECT, UNDEFINED}
       THEN /\ clicks' = [clicks EXCEPT ![c].pc = "failed", ![c].tabState = o]
            /\ UNCHANGED tabMsgs
       ELSE /\ tabMsgs' = Append(tabMsgs, ReloadStateMessage(c, o))
            /\ clicks' = [clicks EXCEPT ![c].pc = "done", ![c].tabState = o]
    /\ UNCHANGED <<signins, isLoading, fetchPc, registry>>
    /\ UNCHANGED vars

PopupInit == SessionInit /\ PopupUnmounted /\ registry \in Registries

PopupNext ==
    \/ Mount
    \/ \E o \in SendOutcomes : FetchResponded(o)
    \/ \E i \in Cards : ClickDelete(i)
    \/ \E i \in Cards : ClickAutoSignin(i)
    \/ \E c \in ClickIds : \E o \in SendOutcomes : DeleteResponded(c, o)
    \/ \E c \in ClickIds : \E o \in SendOutcomes : UpdateResponded(c, o)
    \/ \E c \in ClickIds : \E tabs \in TabQueryOutcomes : TabsQueried(c, tabs)
    \/ \E c \in ClickIds : \E o \in TabStateOutcomes : TabStateSettled(c, o)

PopupSpec == PopupInit /\ [][PopupNext]_popup

\* ------------------------------------------------------ recorded mock calls
\* How many times call c ran `new SignifyClient(...)`; no call, none.
Built(c) == IF c \in CallIds THEN Len(constructed[c]) ELSE 0

\* The positions in the alarm mocks' records of the calls of fn made by call c.
AlarmCallsBy(c, fn) == {i \in DOMAIN alarms : alarms[i].who = c /\ alarms[i].fn = fn}

\* The alarm calls of call c, in the order it made them.
AlarmCallsOf(c) == SelectSeq(alarms, LAMBDA e : e.who = c)

\* The alarm calls recorded before position j leave an alarm scheduled that
\* no alarms.clear has cleared.
AlarmPendingBefore(j) ==
    \E i \in 1 .. (j - 1) :
        /\ alarms[i].fn = "alarms.create"
        /\ \A k \in (i + 1) .. (j - 1) : alarms[k].fn # "alarms.clear"

\* The caller's task is inside connect.
InConnect(p) == pc[p] \in ConnectPcs

\* The caller's call in flight has entered connect (and may have left it).
EnteredConnect(p) == InConnect(p) \/ connectRet[p] # "none"

\* The caller's isConnected in flight reconnected, and that connect succeeded.
Reconnected(p) == op[p] = "isConnected" /\ connectRet[p] = UNDEFINED

\* The caller's top-level call returns (or raises) in this step.
Returns(p) == pc[p] # "idle" /\ pc'[p] = "idle" /\ returned'.call = call[p]

\* The caller's connect returns cr in this step.
ConnectLeaves(p, cr) ==
    /\ InConnect(p)
    /\ pc'[p] \notin ConnectPcs
    /\ IF op[p] = "connect"
       THEN Returns(p) /\ returned'.connectRet = cr /\ returned'.result = cr
       ELSE pc'[p] = "ic_connected" /\ connectRet'[p] = cr

\* The calls whose connect has just returned cr: a connect the test called and
\* that was the last call to return, or one an isConnected has yet to resume from.
ConnectJustReturned(cr) ==
    {c \in CallIds : returned.call = c /\ returned.op = "connect"
                                        /\ returned.connectRet = cr}
        \cup {call[p] : p \in {q \in Callers : pc[q] = "ic_connected"
                                                /\ connectRet[q] = cr}}

\* ----------------------------------------------------------------- claims
\* C1: connect is single-flight: connect calls in flight at the same time
\* with identical credentials construct one client between them, never one
\* each.
SingleFlightConnect ==
    \A p, q \in Callers :
        (p # q /\ InConnect(p) /\ InConnect(q)
              /\ url[p] = url[q] /\ passcode[p] = passcode[q])
            => Built(call[p]) + Built(call[q]) <= 1

\* C2: a connect running while a client handle exists reuses that handle: a
\* client is constructed only when no handle exists.
ConnectReusesLiveHandle ==
    [][\A p \in Callers :
          (InConnect(p) /\ Built(call[p])' > Built(call[p])) => client = NULL]_vars

\* C3: isConnected returns true only if, as it returns, a client handle
\* exists and the state query it made returned a controller identifier; when
\* its state query settles with no handle, a rejection or no identifier, it
\* returns false.
IsConnectedTrueOnlyIfLive ==
    [][\A p \in Callers :
          /\ (op[p] = "isConnected" /\ Returns(p) /\ returned'.result = "true") =>
                 /\ client' # NULL
                 /\ queried[p]
                 /\ ControllerIdOf(returned'.state) # UNDEFINED
          /\ (op[p] = "isConnected" /\ pc[p] = "ic_state" /\ pc'[p] # "ic_state") =>
                 /\ Returns(p)
                 /\ returned'.result =
                        IF /\ client' # NULL
                           /\ queried[p]
                           /\ ControllerIdOf(returned'.state) # UNDEFINED
                        THEN "true" ELSE "false"]_vars

\* C3 witness: an isConnected call has returned true from its state query.
IsConnectedReturnedTrue ==
    /\ returned.op = "isConnected" /\ returned.result = "true"
    /\ returned.queried /\ returned.state = StateWithId

\* C4: an isConnected call that found no client handle and read the stored
\* passcode or the stored agent URL as absent returns false and constructs no
\* client.
NoCredentialsMeansNotConnected ==
    (/\ returned.op = "isConnected"
     /\ client = NULL /\ ~returned.queried
     /\ (returned.passcode = NULL \/ returned.url = NULL))
        => (returned.result = "false" /\ Built(returned.call) = 0)

\* C5: when a connect has succeeded, the alarm it created was created with no
\* earlier alarm of that name still scheduled: any earlier one was cleared.
ConnectClearsAlarmBeforeArming ==
    \A c \in ConnectJustReturned(UNDEFINED) :
        \A j \in AlarmCallsBy(c, "alarms.create") : ~AlarmPendingBefore(j)

\* C6: a connect that leaves at a failed step returns an error value, never
\* raises, and leaves the client handle absent; it returns undefined only
\* from its last step, having armed the alarm.
ConnectFailsClosed ==
    [][\A p \in Callers :
          (InConnect(p) /\ pc'[p] \notin ConnectPcs) =>
              \/ \E error \in Errors : ConnectLeaves(p, error) /\ client' = NULL
              \/ /\ ConnectLeaves(p, UNDEFINED)
                 /\ pc[p] = "c_persist"
                 /\ alarms' = Append(alarms, AlarmCreateCall(call[p]))]_vars

\* C6 witness: with the alarm of an earlier successful connect scheduled, a
\* connect has failed before constructing anything, and no handle is left.
ConnectFailedOverLiveHandle ==
    /\ returned.op = "connect" /\ returned.connectRet = ReadyError
    /\ Built(returned.call) = 0
    /\ \E i \in DOMAIN alarms : alarms[i].who < returned.call
    /\ client = NULL

\* C7: a connect whose handshake rejected has written no controller id and
\* has neither created nor cleared the alarm.
HandshakeRejectTouchesNothing ==
    \A c \in ConnectJustReturned(ConnectError) :
        /\ persisted[c] = <<>>
        /\ AlarmCallsOf(c) = <<>>

\* C7 witness: a handshake has rejected while the alarm of an earlier connect
\* is scheduled.
HandshakeRejectedWithAlarmScheduled ==
    /\ returned.op = "connect" /\ returned.connectRet = ConnectError
    /\ Built(returned.call) = 1
    /\ AlarmPendingBefore(Len(alarms) + 1)

\* C8: when connect returns undefined, the handle is live, the controller id
\* of the state it read is what it persisted, and it arms the alarm, with a
\* 5-minute delay, only then: after persisting, as it returns.
SuccessfulConnectPersistsThenArms ==
    [][\A p \in Callers :
          ConnectLeaves(p, UNDEFINED) =>
              /\ client' # NULL
              /\ persisted[call[p]] = <<(<<ControllerIdOf(state[p])>>)>>
              /\ persisted' = persisted
              /\ AlarmCallsOf(call[p]) = <<>>
              /\ alarms' = Append(alarms,
                                  AlarmCall("alarms.create", call[p], <<AlarmName, 5>>))]_vars

\* clear, then create: what re-arming adds to the alarm calls of call c after
\* its connect has armed the alarm.
Rearmed(c) == <<AlarmCreateCall(c), AlarmClearCall(c), AlarmCreateCall(c)>>

\* C9 as stated: an isConnected whose lazy reconnect succeeded has cleared the
\* alarm and then recreated it, and returns true.
LazyReconnectReturnsTrue ==
    (/\ returned.op = "isConnected" /\ returned.connectRet = UNDEFINED
     /\ returned.result # "raised")
        => /\ returned.result = "true"
           /\ AlarmCallsOf(returned.call) = Rearmed(returned.call)

\* C9 amended: isConnected enters connect only with the stored passcode and
\* agent URL and no live handle, and with those it does; once that connect has
\* succeeded it clears the alarm and only then recreates it; it returns true
\* exactly when the state query it then makes returns a controller identifier
\* with the handle still present.
LazyReconnectRearmsThenQueries ==
    [][\A p \in Callers :
          /\ (op[p] = "isConnected" /\ pc[p] = "ic_url" /\ pc'[p] \notin {"ic_url", "idle"}) =>
                 IF passcode[p] = StoredPasscode /\ url'[p] = StoredUrl /\ client = NULL
                 THEN pc'[p] = "c_ready"
                 ELSE pc'[p] = "ic_state"
          /\ (op[p] = "isConnected" /\ InConnect(p)) =>
                 /\ url[p] = StoredUrl /\ passcode[p] = StoredPasscode
                 /\ \A i \in DOMAIN constructed[call[p]] :
                        constructed[call[p]][i] = <<StoredUrl, StoredPasscode>>
          /\ (Reconnected(p) /\ pc[p] = "ic_connected") =>
                 AlarmCallsOf(call[p]) = <<AlarmCreateCall(call[p])>>
          /\ (Reconnected(p) /\ pc[p] = "ic_clear") =>
                 AlarmCallsOf(call[p]) = <<AlarmCreateCall(call[p]), AlarmClearCall(call[p])>>
          /\ (Reconnected(p) /\ pc[p] = "ic_state") =>
                 AlarmCallsOf(call[p]) = Rearmed(call[p])
          /\ (Reconnected(p) /\ pc[p] = "ic_state" /\ pc'[p] # "ic_state") =>
                 /\ Returns(p)
                 /\ alarms' = alarms
                 /\ returned'.result =
                        IF /\ client' # NULL
                           /\ queried[p]
                           /\ returned'.state = StateWithId
                        THEN "true" ELSE "false"]_vars

\* C9 witness: a lazy reconnect with the stored credentials has succeeded,
\* re-armed the alarm and returned true.
LazyReconnectReturnedTrue ==
    /\ returned.op = "isConnected" /\ returned.connectRet = UNDEFINED
    /\ returned.result = "true"
    /\ returned.url = StoredUrl /\ returned.passcode = StoredPasscode
    /\ constructed[returned.call] = <<(<<StoredUrl, StoredPasscode>>)>>
    /\ AlarmCallsOf(returned.call) = Rearmed(returned.call)

\* C10: isConnected never raises: every call completes with a boolean.
IsConnectedNeverRaises ==
    returned.op = "isConnected" => returned.result \in {"true", "false"}

\* The caller's isConnected in flight found a handle at its test of _client
\* and called state() on it without reconnecting.
ValidatesOnly(p) == op[p] = "isConnected" /\ connectRet[p] = "none" /\ queried[p]

\* Every client constructed since beforeEach was constructed by call c.
OnlyBuiltBy(c) == Built(c) > 0 /\ \A d \in CallIds : d # c => Built(d) = 0

\* C14: two isConnected calls in flight together that both found the stored
\* passcode and agent URL and no handle construct at most one client between
\* them: the later one awaits the connect in flight.
IsConnectedSingleFlight ==
    \A p, q \in Callers :
        (/\ p # q /\ op[p] = "isConnected" /\ op[q] = "isConnected"
         /\ EnteredConnect(p) /\ EnteredConnect(q))
            => Built(call[p]) + Built(call[q]) <= 1

\* C15: no isConnected sees at its test of _client, and queries, a handle that
\* belongs to a connect attempt whose handshake has not yet succeeded.
NoHalfOpenHandleObserved ==
    [][\A p \in Callers :
          (op[p] = "isConnected" /\ pc[p] = "ic_url" /\ pc'[p] = "ic_state"
                                 /\ queried'[p]) =>
              ~\E q \in Callers \ {p} :
                  pc[q] = "c_handshake" /\ OnlyBuiltBy(call[q])]_vars

\* C16: an isConnected whose lazy reconnect failed has neither cleared nor
\* created the alarm, and returns false.
FailedReconnectLeavesAlarm ==
    (/\ returned.op = "isConnected" /\ returned.connectRet \in Errors
     /\ returned.result # "raised")
        => /\ returned.result = "false"
           /\ AlarmCallsOf(returned.call) = <<>>

\* C17: an isConnected that finds a handle at its test of _client goes
\* straight to the state query; until it returns it has constructed no
\* client, persisted no controller id and made no alarm call, and the step
\* that settles its query returns and leaves the handle and the mocks as they
\* were, whatever the query produced.
ExistingHandleOnlyValidated ==
    [][\A p \in Callers :
          /\ (op[p] = "isConnected" /\ pc[p] = "ic_url" /\ client # NULL
                                    /\ pc'[p] # "ic_url" /\ ~Returns(p)) =>
                 /\ pc'[p] = "ic_state" /\ queried'[p]
                 /\ client' = client /\ mocks' = mocks
          /\ ValidatesOnly(p) =>
                 /\ Built(call[p]) = 0
                 /\ persisted[call[p]] = <<>>
                 /\ AlarmCallsOf(call[p]) = <<>>
          /\ (ValidatesOnly(p) /\ pc'[p] # pc[p]) =>
                 /\ Returns(p)
                 /\ client' = client /\ mocks' = mocks]_vars

\* C17 witness: an isConnected that found a handle has returned false from a
\* rejected state query, and the handle is still there.
HandleKeptAfterFailedQuery ==
    /\ returned.op = "isConnected" /\ returned.connectRet = "none"
    /\ returned.queried /\ returned.state = REJECT
    /\ returned.result = "false"
    /\ Built(returned.call) = 0 /\ AlarmCallsOf(returned.call) = <<>>
    /\ client # NULL

\* ------------------------------------------------------ claims on the popup
\* The chrome.tabs.sendMessage calls made for click c, in order.
TabMessagesOf(c) == SelectSeq(tabMsgs, LAMBDA m : m.who = c)

\* Click c has got past its handler's if: its notification is under way or over.
Notifying(c) == clicks[c].pc \in {"tabs", "tabstate"} \/ TabMessagesOf(c) # <<>>

\* Click c's request settles in this step.
Responds(c) == c \in DOMAIN clicks /\ clicks[c].pc = "sent" /\ clicks'[c].pc # "sent"

\* C11: a deleteSignin sends tab messages only once its delete request has
\* been answered with isDeleted = true; when the answer has isDeleted = false
\* or is an error payload, the step that receives it leaves the displayed list
\* as it was, sends nothing, and ends the call.
DeleteNotifiesOnlyWhenDeleted ==
    [][\A c \in ClickIds :
          (c \in DOMAIN clicks' /\ clicks'[c].kind = "delete") =>
              /\ Notifying(c)' =>
                     (clicks'[c].resp.kind = "data" /\ clicks'[c].resp.isDeleted)
              /\ (Responds(c) /\ clicks'[c].resp.kind \in {"data", "error"}
                              /\ ~clicks'[c].resp.isDeleted) =>
                     /\ signins' = signins
                     /\ tabMsgs' = tabMsgs
                     /\ clicks'[c].pc = "done"]_popup

\* C11 witness: one delete was answered isDeleted = true and has notified the
\* tab; another was answered isDeleted = false, is over, and has sent nothing.
DeleteAnsweredBothWays ==
    \E c, d \in DOMAIN clicks :
        /\ clicks[c].kind = "delete" /\ clicks[c].resp.isDeleted
        /\ \E i \in DOMAIN tabMsgs :
               tabMsgs[i].who = c /\ tabMsgs[i].subtype = "reload-state"
        /\ clicks[d].kind = "delete" /\ clicks[d].resp.kind = "data"
        /\ ~clicks[d].resp.isDeleted /\ clicks[d].pc = "done"
        /\ TabMessagesOf(d) = <<>>

\* C12: the step in which a delete or an auto-signin update is answered with
\* success sets the displayed list to the collection of that answer, and no
\* step of the notification that follows, failing or not, changes the
\* displayed list or the background's collection.
NotificationNeverUndoesMutation ==
    [][\A c \in DOMAIN clicks :
          /\ (Responds(c) /\ clicks'[c].pc = "tabs") =>
                 /\ clicks'[c].resp.kind = "data"
                 /\ signins' = clicks'[c].resp.signins
          /\ (clicks[c].pc \in {"tabs", "tabstate"} /\ clicks'[c] # clicks[c]) =>
                 /\ signins' = signins
                 /\ registry' = registry
                 /\ clicks'[c].resp = clicks[c].resp]_popup

\* C12 witness: the notifications of a delete and of an update have failed
\* (no active tab; get-tab-state rejected) and the displayed list is the
\* collection the later of the two mutations returned.
NotificationFailedListKept ==
    \E c, d \in DOMAIN clicks :
        /\ clicks[c].kind = "delete" /\ clicks[d].kind = "update"
        /\ clicks[c].pc = "failed" /\ clicks[d].pc = "failed"
        /\ clicks[c].resp.kind = "data" /\ clicks[d].resp.kind = "data"
        /\ clicks[c].tabState = "none" /\ clicks[d].tabState = REJECT
        /\ TabMessagesOf(c) = <<>>
        /\ signins = clicks[d].resp.signins

\* C13: the tab messages of a mutation are none, or get-tab-state alone, or
\* get-tab-state and then one reload-state; reload-state is sent in the step
\* in which the get-tab-state request returns a response, and carries the
\* tabState of that response, or none when the response has none.
ReloadStateAfterTabState ==
    [][\A c \in DOMAIN clicks :
          LET msgs == TabMessagesOf(c)'
              o == clicks'[c].tabState
          IN /\ \/ msgs = <<>>
                \/ msgs = <<TabMessage(c, "get-tab-state", UNDEFINED)>>
                \/ /\ Len(msgs) = 2
                   /\ msgs[1] = TabMessage(c, "get-tab-state", UNDEFINED)
                   /\ msgs[2].subtype = "reload-state"
                   /\ o \in TabStates \cup {NoData}
                   /\ msgs[2].eventType = IF o \in TabStates THEN o ELSE UNDEFINED
             /\ (Len(msgs) = 2 /\ Len(TabMessagesOf(c)) < 2) =>
                    /\ clicks[c].pc = "tabstate"
                    /\ TabMessagesOf(c) = <<TabMessage(c, "get-tab-state", UNDEFINED)>>]_popup

\* C13 witness: a mutation's get-tab-state returned SELECT_SIGNIN and its
\* reload-state, sent after it, carries SELECT_SIGNIN.
ReloadStateCarriedMode ==
    \E c \in DOMAIN clicks :
        /\ clicks[c].tabState = "SELECT_SIGNIN" /\ clicks[c].pc = "done"
        /\ TabMessagesOf(c) = <<TabMessage(c, "get-tab-state", UNDEFINED),
                                TabMessage(c, "reload-state", "SELECT_SIGNIN")>>

\* C18: signins is an array in every reachable state, so that rendering
\* the list never faults.
SigninsAlwaysArray == ~RenderFaults

\* C19: a fetchSignins that has ended, with data, with an error payload or at
\* a failed send, has left isLoading false.
FetchEndsNotLoading == fetchPc \in {"done", "failed"} => ~isLoading

====
